---- MODULE Spec2Model ----
(***************************************************************************)
(* Model of src/analyze_results.py: the filename parser                    *)
(* (parse_method_from_filename), the per-file summarizer                   *)
(* (analyze_csv_file) and the batch pipeline of main().                    *)
(*                                                                         *)
(* Python strings are sequences of one-character strings, so that split,   *)
(* replace, re.match, the substring test and string comparison are         *)
(* computed as the code computes them.  Floats are exact rationals         *)
(* [nan, num, den] in lowest terms; NaN is a value of its own.             *)
(***************************************************************************)
EXTENDS Integers, Sequences, FiniteSets

VARIABLES
    \* ---- parse_method_from_filename, run on its own
    filename,            \* the argument of parse_method_from_filename
    parse_result,        \* NotCalled, or the (method, params) it returned
    \* ---- main()
    root_exists,         \* results_dir.exists()
    fs,                  \* the *.csv files under results_dir
    todo,                \* files rglob has not yielded yet
    discovered,          \* files rglob has yielded, in order
    individual_results,  \* the list of result dicts
    stdout,              \* what was printed
    parsed_files,        \* files whose name was given to the parser
    read_files,          \* files given to analyze_csv_file
    video_skipped,       \* files dropped by the 'video' test
    summary_df,          \* the DataFrame
    output_file,         \* experiment_summary.csv as written by this run
    env_summary,         \* grouped view by Environment
    method_summary,      \* grouped view by Method
    pc                   \* position in main()

parse_vars == <<filename, parse_result>>
main_vars == <<root_exists, fs, todo, discovered, individual_results, stdout,
               parsed_files, read_files, video_skipped, summary_df,
               output_file, env_summary, method_summary, pc>>
vars == <<filename, parse_result, root_exists, fs, todo, discovered,
          individual_results, stdout, parsed_files, read_files, video_skipped,
          summary_df, output_file, env_summary, method_summary, pc>>

\* ------------------------------------------------------------------ bounds

\* longest file stem (the name without ".csv") given to the parser on its own
MaxLen == 8
\* most files under the results directory in one run
MaxFiles == 3

\* ----------------------------------------------------------------- strings

Lowers == <<"a","b","c","d","e","f","g","h","i","j","k","l","m",
            "n","o","p","q","r","s","t","u","v","w","x","y","z">>
Uppers == <<"A","B","C","D","E","F","G","H","I","J","K","L","M",
            "N","O","P","Q","R","S","T","U","V","W","X","Y","Z">>
Digits == <<"0","1","2","3","4","5","6","7","8","9">>

Range(s) == {s[i] : i \in DOMAIN s}

IndexOf(s, c) == CHOOSE i \in DOMAIN s : s[i] = c

\* [A-Za-z]
IsAlpha(c) == c \in Range(Lowers) \cup Range(Uppers)

\* \d
IsDigit(c) == c \in Range(Digits)

\* ord(c), for the characters that occur
CodePoint(c) ==
    IF c \in Range(Lowers) THEN 96 + IndexOf(Lowers, c)
    ELSE IF c \in Range(Uppers) THEN 64 + IndexOf(Uppers, c)
    ELSE IF c \in Range(Digits) THEN 47 + IndexOf(Digits, c)
    ELSE IF c = "-" THEN 45
    ELSE IF c = "." THEN 46
    ELSE IF c = "/" THEN 47
    ELSE 95  \* "_"

ToUpper(c) == IF c \in Range(Lowers) THEN Uppers[IndexOf(Lowers, c)] ELSE c

ToLower(c) == IF c \in Range(Uppers) THEN Lowers[IndexOf(Uppers, c)] ELSE c

\* str.capitalize()
Capitalize(s) ==
    IF s = <<>> THEN s
    ELSE <<ToUpper(s[1])>> \o [i \in 1..(Len(s) - 1) |-> ToLower(s[i + 1])]

\* a < b on str: the first differing code point decides, a proper prefix is less
StrLess(a, b) ==
    \E i \in 1..(Len(b)) :
        /\ \A j \in 1..(i - 1) : j <= Len(a) /\ a[j] = b[j]
        /\ i - 1 <= Len(a)
        /\ \/ i > Len(a)
           \/ CodePoint(a[i]) < CodePoint(b[i])

StartsWith(s, p) == Len(p) <= Len(s) /\ SubSeq(s, 1, Len(p)) = p

\* needle in hay
Contains(hay, needle) ==
    \E i \in 1..(Len(hay) - Len(needle) + 1) :
        SubSeq(hay, i, i + Len(needle) - 1) = needle

\* str.replace(old, ''): every non-overlapping occurrence, left to right
RECURSIVE Replace(_, _)
Replace(s, old) ==
    IF s = <<>> THEN <<>>
    ELSE IF StartsWith(s, old) THEN Replace(SubSeq(s, Len(old) + 1, Len(s)), old)
    ELSE <<s[1]>> \o Replace(Tail(s), old)

\* str.split(sep) for a one-character sep: empty tokens are kept
RECURSIVE Split(_, _)
Split(s, sep) ==
    IF \A i \in DOMAIN s : s[i] # sep THEN <<s>>
    ELSE LET i == CHOOSE k \in DOMAIN s : s[k] = sep /\ \A j \in 1..(k - 1) : s[j] # sep
         IN  <<SubSeq(s, 1, i - 1)>> \o Split(SubSeq(s, i + 1, Len(s)), sep)

\* sep.join(parts)
RECURSIVE Join(_, _)
Join(parts, sep) ==
    IF parts = <<>> THEN <<>>
    ELSE IF Len(parts) = 1 THEN parts[1]
    ELSE parts[1] \o sep \o Join(Tail(parts), sep)

DotCsv == <<".","c","s","v">>
Underscore == <<"_">>

\* ------------------------------------------------ parse_method_from_filename

\* length of the longest prefix of s whose characters all satisfy the test
AlphaRun(s) ==
    CHOOSE n \in 0..Len(s) :
        /\ \A i \in 1..n : IsAlpha(s[i])
        /\ n < Len(s) => ~IsAlpha(s[n + 1])

DigitRun(s) ==
    CHOOSE n \in 0..Len(s) :
        /\ \A i \in 1..n : IsDigit(s[i])
        /\ n < Len(s) => ~IsDigit(s[n + 1])

NoMatch == <<>>

\* re.match(r'([A-Za-z]+)(\d+)', part): anchored at the start of part only,
\* so what follows the digits is not looked at; the value is match.groups(),
\* or NoMatch for None
ReMatch(part) ==
    LET a == AlphaRun(part)
        d == DigitRun(SubSeq(part, a + 1, Len(part)))
    IN  IF a >= 1 /\ d >= 1
        THEN <<SubSeq(part, 1, a), SubSeq(part, a + 1, a + d)>>
        ELSE NoMatch

HasKey(params, k) == \E i \in DOMAIN params : params[i][1] = k

\* a variant that keeps the first value of a repeated key
DictSetFirstWins(params, k, v) ==
    IF HasKey(params, k) THEN params ELSE Append(params, <<k, v>>)

\* params[k] = v on a dict (a sequence of <<key, value>> in insertion order):
\* an existing key keeps its position and takes the new value
DictSet(params, k, v) ==
    IF HasKey(params, k)
    THEN [i \in DOMAIN params |->
            IF params[i][1] = k THEN <<k, v>> ELSE params[i]]
    ELSE Append(params, <<k, v>>)

\* the for loop over parts[1:]
RECURSIVE ParseParams(_, _)
ParseParams(parts, params) ==
    IF parts = <<>> THEN params
    ELSE LET match == ReMatch(parts[1])
         IN  ParseParams(Tail(parts),
                         IF match # NoMatch
                         THEN DictSet(params, match[1], match[2])
                         ELSE params)

parse_method_from_filename(name) ==
    LET base_name == Replace(name, DotCsv)
        parts == Split(base_name, "_")
    IN  [method |-> parts[1], params |-> ParseParams(Tail(parts), <<>>)]

\* ------------------------------------------------------- string literals

\* "/home/jakob/Promotion/code/robomimic/results"
ResultsDir ==
    <<"/","h","o","m","e","/","j","a","k","o","b","/","P","r","o","m","o",
      "t","i","o","n","/","c","o","d","e","/","r","o","b","o","m","i","m",
      "i","c","/","r","e","s","u","l","t","s">>

\* "video"
Video == <<"v","i","d","e","o">>

\* "Param_"
ParamPrefix == <<"P","a","r","a","m","_">>

\* "nan"
NanText == <<"n","a","n">>

\* "lift"
s_lift == <<"l","i","f","t">>

\* "can"
s_can == <<"c","a","n">>

\* "ph"
s_ph == <<"p","h">>

\* "failsafe"
s_failsafe == <<"f","a","i","l","s","a","f","e">>

\* "other"
s_other == <<"o","t","h","e","r">>

\* "experiment_summary.csv"
s_experiment_summary_csv ==
    <<"e","x","p","e","r","i","m","e","n","t","_","s","u","m","m","a","r",
      "y",".","c","s","v">>

\* "PFL_Ta8_cf20.csv"
s_PFL_Ta8_cf20_csv == <<"P","F","L","_","T","a","8","_","c","f","2","0",".","c","s","v">>

\* "PFL.csv"
s_PFL_csv == <<"P","F","L",".","c","s","v">>

\* "PFL_cf5_Ta3.csv"
s_PFL_cf5_Ta3_csv == <<"P","F","L","_","c","f","5","_","T","a","3",".","c","s","v">>

\* "video_Ta8.csv"
s_video_Ta8_csv == <<"v","i","d","e","o","_","T","a","8",".","c","s","v">>

\* "PFL_Ta8.csv"
s_PFL_Ta8_csv == <<"P","F","L","_","T","a","8",".","c","s","v">>

\* "bad.csv"
s_bad_csv == <<"b","a","d",".","c","s","v">>

\* "locked.csv"
s_locked_csv == <<"l","o","c","k","e","d",".","c","s","v">>

\* "empty_Ta8.csv"
s_empty_Ta8_csv == <<"e","m","p","t","y","_","T","a","8",".","c","s","v">>

\* ------------------------------------------------------------------ numbers

RECURSIVE Gcd(_, _)
Gcd(a, b) == IF b = 0 THEN a ELSE Gcd(b, a % b)

Abs(n) == IF n < 0 THEN 0 - n ELSE n

NaN == [nan |-> TRUE, num |-> 0, den |-> 1]

\* the rational n/d (d > 0) in lowest terms
Frac(n, d) ==
    LET g == Gcd(Abs(n), d)
    IN  [nan |-> FALSE, num |-> n \div g, den |-> d \div g]

IsNaN(x) == x.nan

FAdd(x, y) ==
    IF x.nan \/ y.nan THEN NaN
    ELSE LET g == Gcd(x.den, y.den)
         IN  Frac(x.num * (y.den \div g) + y.num * (x.den \div g),
                  (x.den \div g) * y.den)

FSub(x, y) == FAdd(x, [y EXCEPT !.num = 0 - y.num])

FMul(x, y) ==
    IF x.nan \/ y.nan THEN NaN ELSE Frac(x.num * y.num, x.den * y.den)

\* x / k for an integer k; x / 0 is NaN (0/0 in float arithmetic)
FDivInt(x, k) ==
    IF x.nan \/ k = 0 THEN NaN ELSE Frac(x.num, x.den * k)

RECURSIVE FSum(_)
FSum(xs) == IF xs = <<>> THEN Frac(0, 1) ELSE FAdd(xs[1], FSum(Tail(xs)))

\* Series.round(decimals) with scale = 10^decimals, on a value >= 0:
\* to the nearest multiple of 1/scale, a tie to the even one
Round(x, scale) ==
    IF x.nan THEN NaN
    ELSE LET s == x.num * scale
             q == s \div x.den
             r == s % x.den
             up == 2 * r > x.den \/ (2 * r = x.den /\ q % 2 = 1)
         IN  Frac(IF up THEN q + 1 ELSE q, scale)

\* ------------------------------------------------------------ analyze_csv_file

\* A result file: its path relative to results_dir (a sequence of segments),
\* whether pd.read_csv can read it, its columns and its data rows.

RECURSIVE SumOf(_)
SumOf(xs) == IF xs = <<>> THEN 0 ELSE xs[1] + SumOf(Tail(xs))

\* Series.mean(): NaN on an empty column
Mean(xs) == IF xs = <<>> THEN NaN ELSE Frac(SumOf(xs), Len(xs))

NoStats ==
    [ok |-> FALSE, n_runs |-> 0, success_rate |-> NaN, mean_steps |-> NaN,
     total_critical_collisions |-> 0, mean_critical_collisions |-> NaN]

RequiredColumns == {"success", "n_steps", "critical_collisions"}

\* the try block raises: read_csv fails, or a df[...] lookup is a KeyError
Raises(f) == ~f.readable \/ ~(RequiredColumns \subseteq f.columns)

\* the returned dict, or NoStats for None
analyze_csv_file(f) ==
    IF Raises(f) THEN NoStats
    ELSE LET df == f.rows
         IN  [ok |-> TRUE,
              n_runs |-> Len(df),
              success_rate |-> Mean([i \in DOMAIN df |-> df[i].success]),
              mean_steps |-> Mean([i \in DOMAIN df |-> df[i].n_steps]),
              total_critical_collisions |->
                  SumOf([i \in DOMAIN df |-> df[i].critical_collisions]),
              mean_critical_collisions |->
                  Mean([i \in DOMAIN df |-> df[i].critical_collisions])]

\* ------------------------------------------------------------ the file system

Row(s, n, c) == [success |-> s, n_steps |-> n, critical_collisions |-> c]

\* four runs: success 3/4, n_steps mean 5/4, one critical collision
DataQuarter == <<Row(1, 1, 0), Row(1, 1, 0), Row(1, 1, 1), Row(0, 2, 0)>>
\* two runs: success 1/2, n_steps mean 3/2, three critical collisions
DataHalf == <<Row(1, 1, 1), Row(0, 2, 2)>>
\* one run
DataOne == <<Row(1, 3, 0)>>
\* a header and no data row
DataNone == <<>>

SummaryColumns ==
    {"Environment", "Method", "Method_Full", "Horizon", "Success_Rate",
     "N_Critical_Collisions", "Mean_Critical_Collisions", "Method_Dir", "N_Runs"}

File(path, readable, columns, rows) ==
    [path |-> path, readable |-> readable, columns |-> columns, rows |-> rows]

\* The result files a run can find under results_dir, in a fixed listing order.
\* A file is named by its position in this listing.
Catalog ==
    << File(<<s_lift, s_ph, s_failsafe, s_PFL_Ta8_cf20_csv>>, TRUE, RequiredColumns, DataQuarter),
       File(<<s_lift, s_ph, s_failsafe, s_PFL_csv>>, TRUE, RequiredColumns, DataHalf),
       File(<<s_lift, s_ph, s_other, s_PFL_cf5_Ta3_csv>>, TRUE, RequiredColumns, DataOne),
       File(<<s_lift, s_ph, s_other, s_PFL_Ta8_cf20_csv>>, TRUE, RequiredColumns, DataHalf),
       File(<<s_can, s_ph, s_failsafe, s_PFL_Ta8_csv>>, TRUE, RequiredColumns, DataHalf),
       \* left at the root by an earlier run
       File(<<s_experiment_summary_csv>>, TRUE, SummaryColumns, DataNone),
       \* a legacy layout: three segments
       File(<<s_lift, s_ph, s_PFL_Ta8_csv>>, TRUE, RequiredColumns, DataOne),
       \* inside a video directory
       File(<<s_lift, s_ph, s_failsafe, Video, s_PFL_Ta8_csv>>, TRUE, RequiredColumns, DataOne),
       \* "video" only in the file name
       File(<<s_lift, s_ph, s_failsafe, s_video_Ta8_csv>>, TRUE, RequiredColumns, DataOne),
       \* the required columns and zero data rows
       File(<<s_can, s_ph, s_failsafe, s_empty_Ta8_csv>>, TRUE, RequiredColumns, DataNone),
       \* no success column
       File(<<s_can, s_ph, s_failsafe, s_bad_csv>>, TRUE, {"n_steps", "critical_collisions"}, DataOne),
       \* unreadable
       File(<<s_can, s_ph, s_failsafe, s_locked_csv>>, FALSE, {}, DataNone) >>

FileIds == DOMAIN Catalog

\* ----------------------------------------------------------- the loop of main

Slash == <<"/">>

\* str(csv_file)
StrPath(path) == ResultsDir \o Slash \o Join(path, Slash)

\* a variant with the threshold off by one
TooFewSegmentsOffByOne(path_parts) == Len(path_parts) < 5

\* len(path_parts) < 4
TooFewSegments(path_parts) == Len(path_parts) < 4

\* 'video' in str(csv_file)
IsVideo(path) == Contains(StrPath(path), Video)

\* the result dict of one file; params is the dict the parser returned
ResultEntry(f, stats) ==
    LET parsed == parse_method_from_filename(f.path[4])
    IN  [Environment |-> Capitalize(f.path[1]),
         Method_Dir |-> f.path[3],
         Method |-> parsed.method,
         Horizon |-> stats.mean_steps,
         Success_Rate |-> stats.success_rate,
         N_Critical_Collisions |-> Frac(stats.total_critical_collisions, 1),
         Mean_Critical_Collisions |-> stats.mean_critical_collisions,
         N_Runs |-> stats.n_runs,
         params |-> parsed.params]

Printed(kind, path) == [kind |-> kind, path |-> path]

EmptyLoopState ==
    [results |-> <<>>, out |-> <<>>, parsed |-> {}, read |-> {}, video |-> {}]

\* one iteration for file id, from the video test on; the error line names
\* the file by its path under results_dir
ProcessFile(st, id) ==
    LET f == Catalog[id]
    IN  IF IsVideo(f.path)
        THEN [st EXCEPT !.video = @ \cup {id}]
        ELSE LET stats == analyze_csv_file(f)
             IN  IF ~stats.ok
                 THEN [st EXCEPT !.parsed = @ \cup {id},
                                 !.read = @ \cup {id},
                                 !.out = Append(@, Printed("error", f.path))]
                 ELSE [st EXCEPT !.parsed = @ \cup {id},
                                 !.read = @ \cup {id},
                                 !.results = Append(@, ResultEntry(f, stats)),
                                 !.out = Append(@, Printed("processed",
                                            <<f.path[1], f.path[3], f.path[4]>>))]

\* one iteration of the for loop over rglob
LoopBody(st, id) ==
    IF TooFewSegments(Catalog[id].path) THEN st ELSE ProcessFile(st, id)

RECURSIVE RunLoop(_, _)
RunLoop(st, files) ==
    IF files = <<>> THEN st ELSE RunLoop(LoopBody(st, files[1]), Tail(files))


\* ------------------------------------------------------ the summary DataFrame

\* a missing cell of a Param_ column
NaNCell == <<"NaN">>

\* f"{v}" of a Param_ cell
Str(v) == IF v = NaNCell THEN NanText ELSE v

\* f'Param_{param_name}'
ParamColumn(param_name) == ParamPrefix \o param_name

RECURSIVE AddColumns(_, _)
AddColumns(cols, params) ==
    IF params = <<>> THEN cols
    ELSE AddColumns(IF \E i \in DOMAIN cols : cols[i] = ParamColumn(params[1][1])
                    THEN cols
                    ELSE Append(cols, ParamColumn(params[1][1])),
                    Tail(params))

\* the Param_ columns of pd.DataFrame(list of dicts): keys in order of first
\* appearance over the list
RECURSIVE ParamColumns(_, _)
ParamColumns(results, cols) ==
    IF results = <<>> THEN cols
    ELSE ParamColumns(Tail(results), AddColumns(cols, results[1].params))

\* the Param_ cells of one row: the dict's value, NaN where the key is absent
ParamCells(params, cols) ==
    [c \in Range(cols) |->
        IF \E i \in DOMAIN params : ParamColumn(params[i][1]) = c
        THEN params[CHOOSE i \in DOMAIN params : ParamColumn(params[i][1]) = c][2]
        ELSE NaNCell]

\* the lambda of summary_df.apply(..., axis=1): every Param_ column of the
\* frame contributes, in column order
MethodFull(method, cells, cols) ==
    method \o
    (IF cols # <<>>
     THEN Underscore \o
          Join([i \in DOMAIN cols |-> Replace(cols[i], ParamPrefix) \o Str(cells[cols[i]])],
               Underscore)
     ELSE <<>>)

\* pd.DataFrame(individual_results) with the Method_Full column added; index is
\* the RangeIndex label of the row
DataFrame(results) ==
    LET cols == ParamColumns(results, <<>>)
    IN  [columns |-> cols,
         rows |-> [i \in DOMAIN results |->
            LET r == results[i]
                cells == ParamCells(r.params, cols)
            IN  [index |-> i - 1,
                 Environment |-> r.Environment,
                 Method |-> r.Method,
                 Method_Full |-> MethodFull(r.Method, cells, cols),
                 Horizon |-> r.Horizon,
                 Success_Rate |-> r.Success_Rate,
                 N_Critical_Collisions |-> r.N_Critical_Collisions,
                 Mean_Critical_Collisions |-> r.Mean_Critical_Collisions,
                 Method_Dir |-> r.Method_Dir,
                 N_Runs |-> r.N_Runs,
                 Param |-> cells]]]

\* row a sorts strictly before row b under ['Environment', 'Method', 'Method_Full']
KeyLess(a, b) ==
    \/ StrLess(a.Environment, b.Environment)
    \/ /\ a.Environment = b.Environment
       /\ \/ StrLess(a.Method, b.Method)
          \/ /\ a.Method = b.Method
             /\ StrLess(a.Method_Full, b.Method_Full)

\* insert row r after every row that does not sort after it
RECURSIVE Insert(_, _)
Insert(sorted, r) ==
    IF sorted = <<>> THEN <<r>>
    ELSE IF KeyLess(r, sorted[1]) THEN <<r>> \o sorted
    ELSE <<sorted[1]>> \o Insert(Tail(sorted), r)

\* sort_values on several keys: a stable sort
RECURSIVE SortValues(_, _)
SortValues(rows, acc) ==
    IF rows = <<>> THEN acc ELSE SortValues(Tail(rows), Insert(acc, rows[1]))

\* a variant that drops the result of sort_values
AggregatedUnsorted(results) == DataFrame(results)

\* lines 122-140: the frame, Method_Full, the sort; the column reordering keeps
\* the Param_ columns in the frame's order
Aggregated(results) ==
    LET df == DataFrame(results)
    IN  [columns |-> df.columns, rows |-> SortValues(df.rows, <<>>)]

\* .astype(int) on a column holding NaN raises
RoundRaises(df) == \E i \in DOMAIN df.rows : IsNaN(df.rows[i].Horizon)

\* lines 143-147
Rounded(df) ==
    [df EXCEPT !.rows = [i \in DOMAIN df.rows |->
        [df.rows[i] EXCEPT
            !.Horizon = Round(@, 1),
            !.Success_Rate = Round(@, 10000),
            !.N_Critical_Collisions = Round(@, 1),
            !.Mean_Critical_Collisions = Round(@, 100)]]]

NotWritten == [written |-> FALSE, columns |-> <<>>, rows |-> <<>>]

\* to_csv(output_file, index=False): the columns in order, the rows without
\* their index label
Exported(df) ==
    [written |-> TRUE,
     columns |-> df.columns,
     rows |-> [i \in DOMAIN df.rows |->
        LET r == df.rows[i]
        IN  [Environment |-> r.Environment,
             Method |-> r.Method,
             Method_Full |-> r.Method_Full,
             Horizon |-> r.Horizon,
             Success_Rate |-> r.Success_Rate,
             N_Critical_Collisions |-> r.N_Critical_Collisions,
             Mean_Critical_Collisions |-> r.Mean_Critical_Collisions,
             Method_Dir |-> r.Method_Dir,
             N_Runs |-> r.N_Runs,
             Param |-> r.Param]]]

\* --------------------------------------------------------- the grouped views

KeyOf(r, by) == IF by = "Environment" THEN r.Environment ELSE r.Method

\* the non-NaN values, which count, mean and std use
RECURSIVE DropNaN(_)
DropNaN(xs) ==
    IF xs = <<>> THEN <<>>
    ELSE IF IsNaN(xs[1]) THEN DropNaN(Tail(xs))
    ELSE <<xs[1]>> \o DropNaN(Tail(xs))

FMean(xs) == FDivInt(FSum(DropNaN(xs)), Len(DropNaN(xs)))

\* the square of std (sample convention, N-1); NaN for fewer than two values.
\* The view holds std by its square: the root is not a rational.
FVar(xs) ==
    LET ys == DropNaN(xs)
        m == FMean(ys)
    IN  IF Len(ys) < 2 THEN NaN
        ELSE FDivInt(FSum([i \in DOMAIN ys |-> FMul(FSub(ys[i], m), FSub(ys[i], m))]),
                     Len(ys) - 1)

RECURSIVE SelectKey(_, _, _)
SelectKey(rows, by, k) ==
    IF rows = <<>> THEN <<>>
    ELSE IF KeyOf(rows[1], by) = k THEN <<rows[1]>> \o SelectKey(Tail(rows), by, k)
    ELSE SelectKey(Tail(rows), by, k)

\* groupby(by).agg({...}).round(4) over rows that carry Environment, Method,
\* Success_Rate, Horizon and N_Critical_Collisions
GroupView(rows, by) ==
    [k \in {KeyOf(rows[i], by) : i \in DOMAIN rows} |->
        LET g == SelectKey(rows, by, k)
            sr == [i \in DOMAIN g |-> g[i].Success_Rate]
            hz == [i \in DOMAIN g |-> g[i].Horizon]
            cc == [i \in DOMAIN g |-> g[i].N_Critical_Collisions]
        IN  [Success_Rate_count |-> Len(DropNaN(sr)),
             Success_Rate_mean |-> Round(FMean(sr), 10000),
             Success_Rate_std2 |-> FVar(sr),
             Horizon_mean |-> Round(FMean(hz), 10000),
             Horizon_std2 |-> FVar(hz),
             N_Critical_Collisions_mean |-> Round(FMean(cc), 10000),
             N_Critical_Collisions_std2 |-> FVar(cc)]]

NoView == [k \in {} |-> 0]


\* the characters file stems are drawn from when the parser runs on its own
StemChars == {"a", "1", "_", "-"}

Stems == UNION {[1..n -> StemChars] : n \in 0..MaxLen}

NotCalled == [called |-> FALSE, method |-> <<>>, params |-> <<>>]

\* ------------------------------------------------------------------- main()

NoFrame == [columns |-> <<>>, rows |-> <<>>]

InitMain ==
    /\ root_exists \in BOOLEAN
    /\ fs \in {S \in SUBSET FileIds :
                 Cardinality(S) <= MaxFiles /\ (~root_exists => S = {})}
    /\ todo = fs
    /\ discovered = <<>>
    /\ individual_results = <<>>
    /\ stdout = <<>>
    /\ parsed_files = {}
    /\ read_files = {}
    /\ video_skipped = {}
    /\ summary_df = NoFrame
    /\ output_file = NotWritten
    /\ env_summary = NoView
    /\ method_summary = NoView
    /\ pc = "start"

\* lines 66-68
CheckRoot ==
    /\ pc = "start"
    /\ IF root_exists
       THEN pc' = "walk" /\ stdout' = stdout
       ELSE /\ pc' = "root_missing"
            /\ stdout' = Append(stdout, Printed("root_missing", <<ResultsDir>>))
    /\ UNCHANGED <<root_exists, fs, todo, discovered, individual_results,
                   parsed_files, read_files, video_skipped, summary_df,
                   output_file, env_summary, method_summary>>
    /\ UNCHANGED parse_vars

\* lines 74-115: rglob yields the next file, in no fixed order
Iterate ==
    /\ pc = "walk"
    /\ \E f \in todo :
        LET st == LoopBody([results |-> individual_results, out |-> stdout,
                            parsed |-> parsed_files, read |-> read_files,
                            video |-> video_skipped], f)
        IN  /\ todo' = todo \ {f}
            /\ discovered' = Append(discovered, f)
            /\ individual_results' = st.results
            /\ stdout' = st.out
            /\ parsed_files' = st.parsed
            /\ read_files' = st.read
            /\ video_skipped' = st.video
    /\ UNCHANGED <<root_exists, fs, summary_df, output_file, env_summary,
                   method_summary, pc>>
    /\ UNCHANGED parse_vars

\* a variant that never takes the early return
NoResultsNever(results) == FALSE

\* not individual_results
NoResults(results) == results = <<>>

\* lines 117-119, once rglob is exhausted
CheckResults ==
    /\ pc = "walk"
    /\ todo = {}
    /\ IF NoResults(individual_results)
       THEN /\ pc' = "no_files"
            /\ stdout' = Append(stdout, Printed("no_files", <<>>))
       ELSE pc' = "collected" /\ stdout' = stdout
    /\ UNCHANGED <<root_exists, fs, todo, discovered, individual_results,
                   parsed_files, read_files, video_skipped, summary_df,
                   output_file, env_summary, method_summary>>
    /\ UNCHANGED parse_vars

\* lines 122-140
Aggregate ==
    /\ pc = "collected"
    /\ summary_df' = Aggregated(individual_results)
    /\ pc' = "sorted"
    /\ UNCHANGED <<root_exists, fs, todo, discovered, individual_results, stdout,
                   parsed_files, read_files, video_skipped, output_file,
                   env_summary, method_summary>>
    /\ UNCHANGED parse_vars

\* lines 143-147; an exception here is not caught and ends the run
RoundValues ==
    /\ pc = "sorted"
    /\ IF RoundRaises(summary_df)
       THEN pc' = "crashed" /\ summary_df' = summary_df
       ELSE pc' = "rounded" /\ summary_df' = Rounded(summary_df)
    /\ UNCHANGED <<root_exists, fs, todo, discovered, individual_results, stdout,
                   parsed_files, read_files, video_skipped, output_file,
                   env_summary, method_summary>>
    /\ UNCHANGED parse_vars

\* lines 150-154
Save ==
    /\ pc = "rounded"
    /\ output_file' = Exported(summary_df)
    /\ stdout' = Append(stdout, Printed("saved", <<s_experiment_summary_csv>>))
    /\ pc' = "written"
    /\ UNCHANGED <<root_exists, fs, todo, discovered, individual_results,
                   parsed_files, read_files, video_skipped, summary_df,
                   env_summary, method_summary>>
    /\ UNCHANGED parse_vars

\* lines 156-175
Report ==
    /\ pc = "written"
    /\ env_summary' = GroupView(summary_df.rows, "Environment")
    /\ method_summary' = GroupView(summary_df.rows, "Method")
    /\ pc' = "done"
    /\ UNCHANGED <<root_exists, fs, todo, discovered, individual_results, stdout,
                   parsed_files, read_files, video_skipped, summary_df,
                   output_file>>
    /\ UNCHANGED parse_vars

Init ==
    /\ InitMain
    /\ filename = <<>>
    /\ parse_result = NotCalled

Next ==
    \/ CheckRoot
    \/ Iterate
    \/ CheckResults
    \/ Aggregate
    \/ RoundValues
    \/ Save
    \/ Report

Spec == Init /\ [][Next]_vars

\* ------------------------------------- parse_method_from_filename on its own

ParseInit ==
    /\ filename \in {stem \o DotCsv : stem \in Stems}
    /\ parse_result = NotCalled
    /\ root_exists = FALSE
    /\ fs = {}
    /\ todo = {}
    /\ discovered = <<>>
    /\ individual_results = <<>>
    /\ stdout = <<>>
    /\ parsed_files = {}
    /\ read_files = {}
    /\ video_skipped = {}
    /\ summary_df = NoFrame
    /\ output_file = NotWritten
    /\ env_summary = NoView
    /\ method_summary = NoView
    /\ pc = "idle"

Parse ==
    /\ ~parse_result.called
    /\ parse_result' =
          [called |-> TRUE,
           method |-> parse_method_from_filename(filename).method,
           params |-> parse_method_from_filename(filename).params]
    /\ UNCHANGED filename
    /\ UNCHANGED main_vars

ParseNext == Parse

ParseSpec == ParseInit /\ [][ParseNext]_vars


\* ===================================================================== claims

\* ------------------------------------------------- vocabulary of the claims

\* the file stem the parser was given: the name without its ".csv"
Stem == SubSeq(filename, 1, Len(filename) - Len(DotCsv))

\* the positions of the delimiter in s, with one before and one after s
Cuts(s) == {i \in 1..Len(s) : s[i] = "_"} \cup {0, Len(s) + 1}

NthCut(s, k) ==
    CHOOSE c \in Cuts(s) : Cardinality({d \in Cuts(s) : d < c}) = k - 1

NumTokens(s) == Cardinality(Cuts(s)) - 1

\* the k-th delimiter-free token of s
Token(s, k) == SubSeq(s, NthCut(s, k) + 1, NthCut(s, k + 1) - 1)

\* t is, as a whole, a non-empty run of letters followed by a non-empty run of digits
FullToken(t) ==
    \E n \in 1..(Len(t) - 1) :
        /\ \A i \in 1..n : IsAlpha(t[i])
        /\ \A i \in (n + 1)..Len(t) : IsDigit(t[i])

LettersOf(t) == SubSeq(t, 1, Cardinality({i \in 1..Len(t) : IsAlpha(t[i])}))

DigitsOf(t) == SubSeq(t, Len(LettersOf(t)) + 1, Len(t))

\* The mapping the tokens of s at the positions K stand for: one pair per
\* distinct name, in order of the name's first token, with the digits of the
\* name's last token.
ExpectedParams(s, K) ==
    LET name(k) == LettersOf(Token(s, k))
        firsts == {k \in K : \A j \in K : j < k => name(j) # name(k)}
        nth(i) == CHOOSE k \in firsts : Cardinality({j \in firsts : j < k}) = i - 1
        last(k) == CHOOSE j \in K : name(j) = name(k) /\
                                    \A h \in K : name(h) = name(k) => h <= j
    IN  [i \in 1..Cardinality(firsts) |->
            <<name(nth(i)), DigitsOf(Token(s, last(nth(i))))>>]

\* every token after the first is letters followed by digits
WellFormed(s) == \A k \in 2..NumTokens(s) : FullToken(Token(s, k))

RunEnded == pc \in {"root_missing", "no_files", "crashed", "done"}

HasFourSegments(id) == Len(Catalog[id].path) >= 4

\* the try block of analyze_csv_file raised on file id
Failed(id) == Raises(Catalog[id])

\* file id has the required columns and no data row
ZeroRows(id) == ~Raises(Catalog[id]) /\ Catalog[id].rows = <<>>

RECURSIVE FoldProcess(_, _)
FoldProcess(st, files) ==
    IF files = <<>> THEN st ELSE FoldProcess(ProcessFile(st, files[1]), Tail(files))

\* what the run so far would have collected had rglob yielded only the files
\* with at least four segments
WithoutDecoys == FoldProcess(EmptyLoopState, SelectSeq(discovered, HasFourSegments))

\* the files of the run, in the catalog's order
RECURSIVE Listing(_)
Listing(n) ==
    IF n = 0 THEN <<>>
    ELSE IF n \in fs THEN Append(Listing(n - 1), n) ELSE Listing(n - 1)

\* the summary of a run that finds the same files in the catalog's order
CanonicalExport ==
    Exported(Rounded(Aggregated(RunLoop(EmptyLoopState, Listing(Len(Catalog))).results)))

\* a row without Method_Full, its Param_ cells by column name
Cells(r) ==
    [Environment |-> r.Environment, Method |-> r.Method, Horizon |-> r.Horizon,
     Success_Rate |-> r.Success_Rate,
     N_Critical_Collisions |-> r.N_Critical_Collisions,
     Mean_Critical_Collisions |-> r.Mean_Critical_Collisions,
     Method_Dir |-> r.Method_Dir, N_Runs |-> r.N_Runs, Param |-> r.Param]

\* how often each row occurs
BagOfCells(rows) ==
    [c \in {Cells(rows[i]) : i \in DOMAIN rows} |->
        Cardinality({i \in DOMAIN rows : Cells(rows[i]) = c})]

\* "_{key}{value}" for each pair of params, in order
RECURSIVE OwnSuffix(_)
OwnSuffix(params) ==
    IF params = <<>> THEN <<>>
    ELSE Underscore \o params[1][1] \o params[1][2] \o OwnSuffix(Tail(params))

\* ------------------------------------------------------------------------ C1
\* C1: in every row of the summary table, Method_Full is the row's Method
\* followed by "_{key}{value}" for each parameter parsed from the row's own
\* filename, in that filename's order, and nothing else.
C1_MethodFullFromOwnParams ==
    pc \in {"written", "done"} =>
        \A i \in DOMAIN summary_df.rows :
            LET r == summary_df.rows[i]
                own == individual_results[r.index + 1]
            IN  r.Method_Full = r.Method \o OwnSuffix(own.params)

\* ------------------------------------------------------------------------ C2
\* C2: for a name M_P1D1_P2D2... (every token after the first letters then
\* digits) the parser returns method = M and exactly the pairs Pi -> Di, keys
\* in order of first appearance, a repeated name holding its last value.
C2_ParserRecoversParams ==
    (parse_result.called /\ WellFormed(Stem)) =>
        /\ parse_result.method = Token(Stem, 1)
        /\ parse_result.params = ExpectedParams(Stem, 2..NumTokens(Stem))

\* a name was repeated with two different values, and the parser has returned
C2_Witness ==
    /\ parse_result.called
    /\ WellFormed(Stem)
    /\ \E j, k \in 2..NumTokens(Stem) :
        /\ j < k
        /\ LettersOf(Token(Stem, j)) = LettersOf(Token(Stem, k))
        /\ DigitsOf(Token(Stem, j)) # DigitsOf(Token(Stem, k))

\* ------------------------------------------------------------------------ C3
\* C3: only a token that is, as a whole, letters followed by digits is recorded;
\* every other token after the first contributes no entry to params.
C3_OnlyFullTokensRecorded ==
    parse_result.called =>
        parse_result.params =
            ExpectedParams(Stem, {k \in 2..NumTokens(Stem) : FullToken(Token(Stem, k))})

\* ------------------------------------------------------------------------ C4
\* C4: a file that cannot be summarized is reported with its path, gives no row
\* and does not stop the run: when the run has ended, every file that could be
\* summarized has its row and the summary has been written.
C4_BadFileDoesNotStopRun ==
    (RunEnded /\ (\E f \in read_files : Failed(f)) /\ (\E f \in read_files : ~Failed(f))) =>
        /\ \A f \in read_files :
              Failed(f) => \E i \in DOMAIN stdout :
                              stdout[i] = Printed("error", Catalog[f].path)
        /\ output_file.written
        /\ Len(output_file.rows) = Cardinality({f \in read_files : ~Failed(f)})

\* ------------------------------------------------------------------------ C5
\* C5: a file with the required columns and zero data rows does not crash the
\* run: the run reaches the write of the summary, which holds the rows of all
\* files, the zero-row file's with N_Runs 0 and not-a-number means.
C5_ZeroRowFileHandled ==
    (RunEnded /\ \E f \in read_files : ZeroRows(f)) =>
        /\ pc = "done"
        /\ output_file.written
        /\ Len(output_file.rows) = Len(individual_results)
        /\ \E i \in DOMAIN output_file.rows :
              /\ output_file.rows[i].N_Runs = 0
              /\ IsNaN(output_file.rows[i].Success_Rate)

\* ------------------------------------------------------------------------ C6
\* C6: with the root missing the run reports the path and ends before any file
\* is discovered or read; with the root present and no record collected it
\* reports this and ends before the sort, format and write steps; in both
\* cases no summary file is written.
C6_NoSummaryOnEmptyOrMissing ==
    /\ ~root_exists =>
          /\ pc \in {"start", "root_missing"}
          /\ discovered = <<>> /\ parsed_files = {} /\ read_files = {}
          /\ ~output_file.written
    /\ pc = "root_missing" => stdout = <<Printed("root_missing", <<ResultsDir>>)>>
    /\ (root_exists /\ pc # "start" /\ todo = {} /\ individual_results = <<>>) =>
          /\ pc \in {"walk", "no_files"}
          /\ summary_df = NoFrame
          /\ ~output_file.written
    /\ pc = "no_files" =>
          /\ todo = {} /\ individual_results = <<>>
          /\ stdout[Len(stdout)] = Printed("no_files", <<>>)

\* the root exists, files were found and read, every one was skipped, and the
\* run has ended
C6_Witness ==
    /\ pc = "no_files"
    /\ read_files # {}
    /\ video_skipped # {}

\* ------------------------------------------------------------------------ C7
\* C7: a file with fewer than 4 path segments is excluded before it is parsed
\* or read, and the collected rows and the written summary are what they would
\* be without such files.
C7_ShortPathsExcluded ==
    LET alone == WithoutDecoys
    IN  /\ \A f \in parsed_files \cup read_files : Len(Catalog[f].path) >= 4
        /\ individual_results = alone.results
        /\ parsed_files = alone.parsed
        /\ read_files = alone.read
        /\ output_file.written =>
              output_file = Exported(Rounded(Aggregated(alone.results)))

\* a summary with rows was written by a run that also found an earlier run's
\* experiment_summary.csv at the root and a three-segment file
C7_Witness ==
    /\ output_file.written
    /\ output_file.rows # <<>>
    /\ \E i \in DOMAIN discovered :
          Catalog[discovered[i]].path = <<s_experiment_summary_csv>>
    /\ \E i \in DOMAIN discovered : Len(Catalog[discovered[i]].path) = 3

\* ------------------------------------------------------------------------ C8
\* C8 as stated: the exported table (rows, their order, every cell, the order
\* of the Param_ columns) is the same whatever order the files are found in.
C8_ExportIndependentOfOrder ==
    output_file.written => output_file = CanonicalExport

\* C8 as amended: whatever order the files are found in, the exported table has
\* the same set of Param_ columns and the same rows as a multiset of cells by
\* column name, Method_Full apart, and its rows are in non-decreasing
\* (Environment, Method, Method_Full) order.
C8_ExportContentIndependentOfOrder ==
    output_file.written =>
        LET canonical == CanonicalExport
        IN
        /\ Range(output_file.columns) = Range(canonical.columns)
        /\ Len(output_file.columns) = Len(canonical.columns)
        /\ BagOfCells(output_file.rows) = BagOfCells(canonical.rows)
        /\ \A i \in 1..(Len(output_file.rows) - 1) :
              ~KeyLess(output_file.rows[i + 1], output_file.rows[i])

\* a summary of several rows was written that differs from the one the
\* catalog's order gives
C8_Witness ==
    /\ output_file.written
    /\ Len(output_file.rows) >= 2
    /\ output_file # CanonicalExport

\* ------------------------------------------------------------------------ C9
\* C9: the grouped-by-environment and grouped-by-method views are computed
\* from the unrounded per-file metrics, never from the rounded export values.
C9_ViewsFromUnrounded ==
    pc = "done" =>
        /\ env_summary = GroupView(individual_results, "Environment")
        /\ method_summary = GroupView(individual_results, "Method")

\* ----------------------------------------------------------------------- C10
\* C10: a discovered file with at least 4 segments is dropped by the video rule
\* if and only if one of its directory segments is the video marker.
C10_VideoByDirectorySegment ==
    \A i \in DOMAIN discovered :
        LET id == discovered[i]
            path == Catalog[id].path
        IN  HasFourSegments(id) =>
                (id \in video_skipped <=>
                    \E j \in 1..(Len(path) - 1) : path[j] = Video)


====
